---- MODULE Spec2Model ----
(***************************************************************************)
(* Model of meshio's H5M reader and writer (src/meshio/h5m_io.py).         *)
(*                                                                         *)
(* The hierarchical container is the record `file`; one call of write or   *)
(* read is a sequence of steps over it, `pc` being the position in the     *)
(* function body.  A behaviour is either a write followed by a read of the *)
(* container it produced, or a read of a container produced elsewhere.     *)
(***************************************************************************)
EXTENDS Integers, Sequences, FiniteSets, TLC

\* ---------------------------------------------------------------- bounds
MaxPoints == 2
MaxCells == 3
MaxContents == 3
MaxRows == 2

\* ------------------------------------------------------------- utilities
EmptyFn == [x \in {} |-> 0]

Min(a, b) == IF a < b THEN a ELSE b

Max(a, b) == IF a < b THEN b ELSE a

\* Python's clamping of one slice bound against a sequence of length n.
PyBound(x, n) == IF x < 0 THEN Max(x + n, 0) ELSE Min(x, n)

\* s[a:b:step] of a 0-based Python sequence, step >= 1.
PySlice(s, a, b, step) ==
  LET lo == PyBound(a, Len(s))
      hi == PyBound(b, Len(s))
      cnt == IF hi > lo THEN (hi - lo + step - 1) \div step ELSE 0
  IN [i \in 1..cnt |-> s[lo + (i - 1) * step + 1]]

\* zip(a, b): pairs up to the shorter of the two.
Zip(a, b) == [i \in 1..Min(Len(a), Len(b)) |-> <<a[i], b[i]>>]

\* range(a, b) as a sequence.
PyRange(a, b) == [i \in 1..Max(b - a, 0) |-> a + i - 1]

\* format(num, '04b'): binary digits, most significant first, zero-padded
\* to at least 4 digits (num >= 0).
RECURSIVE BinDigits(_)
BinDigits(num) ==
  IF num < 2 THEN <<num>> ELSE Append(BinDigits(num \div 2), num % 2)

Format04b(num) ==
  LET d == BinDigits(num)
  IN IF Len(d) >= 4 THEN d ELSE [i \in 1..(4 - Len(d)) |-> 0] \o d

Reverse(s) == [i \in 1..Len(s) |-> s[Len(s) + 1 - i]]

\* _int_to_bool_list: the flag bits, least significant first.
IntToBoolList(num) ==
  LET d == Reverse(Format04b(num)) IN [i \in 1..Len(d) |-> d[i] = 1]

\* -------------------------------------------------------- index shifting
MapCells(cells, d) ==
  [cells EXCEPT !.rows =
     [j \in 1..Len(cells.rows) |->
        [c \in 1..Len(cells.rows[j]) |-> cells.rows[j][c] + d]]]

\* The container's index base.
BaseIndex == 1

AdvanceByOne(gid, n) == gid + 1

\* global_id += len(...)
Advance(gid, n) == gid + n

\* cells + 1 (write).
ShiftUp(cells) == MapCells(cells, 1)

ShiftDownMissing(cells) == cells

\* conn[()] - 1 (read).
ShiftDown(cells) == MapCells(cells, -1)

\* ------------------------------------------------------- element blocks
H5mTypeWithWidth5 ==
  [w \in {2, 3, 4, 5} |->
     CASE w = 2 -> [name |-> "Edge2", type |-> 1]
       [] w = 3 -> [name |-> "Tri3", type |-> 2]
       [] w = 4 -> [name |-> "Tet4", type |-> 5]
       [] w = 5 -> [name |-> "Tet4", type |-> 5]]

\* h5m_type: number of nodes per cell to block name and category code.
h5m_type ==
  [w \in {2, 3, 4} |->
     CASE w = 2 -> [name |-> "Edge2", type |-> 1]
       [] w = 3 -> [name |-> "Tri3", type |-> 2]
       [] w = 4 -> [name |-> "Tet4", type |-> 5]]

SelectBlockTetFirst(names) ==
  IF "Tet4" \in names THEN "Tet4"
  ELSE IF "Tri3" \in names THEN "Tri3"
  ELSE "none"

\* The if/elif/else choosing the element block on read.
SelectBlock(names) ==
  IF "Tri3" \in names THEN "Tri3"
  ELSE IF "Tet4" \in names THEN "Tet4"
  ELSE "none"

\* ------------------------------------------------------------ container
NoCells == [width |-> 0, rows |-> <<>>]

\* A container just created by h5py.File(filename, 'w').
EmptyFile ==
  [paths |-> {},
   coords |-> <<>>,
   coords_start_id |-> 0,
   node_tags |-> EmptyFn,
   tstt_tags |-> EmptyFn,
   elems |-> EmptyFn,
   sets_contents |-> <<>>,
   sets_list |-> <<>>,
   sets_tags |-> <<>>,
   attrs |-> EmptyFn]

\* One element block: its element_type attribute, its connectivity dataset
\* with the start_id attribute, and its tags group (has_tags: the group
\* exists).
Block(etype, conn, start, has_tags, tags) ==
  [element_type |-> etype, connectivity |-> conn, start_id |-> start,
   has_tags |-> has_tags, tags |-> tags]

\* ---------------------------------------------------------------- state
VARIABLES
  file,        \* the container
  op,          \* the call in progress or last made: "write" or "read"
  pc,          \* position in the call
  err,         \* the exception that ended the call, "" if none
  handle,      \* per call, the state of its h5py.File handle
  args,        \* write's arguments
  wrote,       \* how the write of this behaviour ended: "no", "ok", "failed"
  global_id,   \* write's running global-ID counter
  points,      \* read's locals ...
  point_data,
  elems,       \* name of the selected element block
  cells,
  cell_data,
  cell_start_gid,
  cell_end_gid,
  tag_i,       \* index of the set tag being decoded (sets_tags.items())
  k,           \* index of the next row of sets_list (enumerate)
  end          \* the cursor into sets_contents

vars == <<file, op, pc, err, handle, args, wrote, global_id, points,
          point_data, elems, cells, cell_data, cell_start_gid, cell_end_gid,
          tag_i, k, end>>

readLocals == <<points, point_data, elems, cells, cell_data, cell_start_gid,
                cell_end_gid, tag_i, k, end>>

\* ------------------------------------------------------- write's inputs
\* N points; the coordinates themselves are never inspected.
PointsOf(n) == [i \in 1..n |-> <<i, 0, 0>>]

\* Rows of the given width over the point indices 0..n-1 (over index 0
\* when there is no point: write does not look at the indices).
RowChoices(w, n) ==
  {[c \in 1..w |-> (c - 1 + s) % Max(n, 1)] : s \in 0..(Max(n, 1) - 1)}

SeqsUpTo(S, n) == UNION {[1..m -> S] : m \in 0..n}

\* Row widths tried: the three supported ones and an unsupported one.
Widths == 2..5

CellChoices(n) ==
  UNION {{[width |-> w, rows |-> r] :
            r \in SeqsUpTo(RowChoices(w, n), MaxCells)} : w \in Widths}

\* An optional dict argument: None, or its items.
NoneArg == [none |-> TRUE, items |-> EmptyFn]

DictArg(items) == [none |-> FALSE, items |-> items]

\* point_data: None, or one flat tag and one n-x-2 tag.
PointDataChoices(n) ==
  {NoneArg,
   DictArg([key \in {"T", "V"} |->
              IF key = "T"
              THEN [shape |-> <<n>>, data |-> [i \in 1..n |-> i]]
              ELSE [shape |-> <<n, 2>>, data |-> [i \in 1..n |-> <<i, i>>]]])}

\* cell_data: None, an empty dict, or one tag.
CellDataChoices(m) ==
  {NoneArg, DictArg(EmptyFn),
   DictArg([key \in {"C"} |-> [j \in 1..m |-> 10 + j]])}

WriteArgsFor(n, c) ==
  {[points |-> PointsOf(n), cells |-> c, point_data |-> pd,
    cell_data |-> cd] :
     pd \in PointDataChoices(n), cd \in CellDataChoices(Len(c.rows))}

WriteArgs ==
  UNION {UNION {WriteArgsFor(n, c) : c \in CellChoices(n)} :
           n \in 0..MaxPoints}

NoArgs ==
  [points |-> <<>>, cells |-> NoCells, point_data |-> NoneArg,
   cell_data |-> NoneArg]

\* ---------------------------------------------------------------- write
\* f = h5py.File(filename, 'w'); tstt = f.create_group('tstt')
WriteOpen ==
  /\ op = "write" /\ pc = "idle"
  /\ file' = [EmptyFile EXCEPT !.paths = {"tstt"}]
  /\ handle' = [handle EXCEPT !.write = "open"]
  /\ pc' = "w_nodes"
  /\ UNCHANGED <<op, err, args, wrote, global_id, readLocals>>

\* global_id = 1; the coordinates dataset, its start_id; global_id += N
WriteNodes ==
  /\ op = "write" /\ pc = "w_nodes"
  /\ file' = [file EXCEPT
       !.paths = @ \cup {"tstt/nodes", "tstt/nodes/coordinates"},
       !.coords = args.points,
       !.coords_start_id = BaseIndex]
  /\ global_id' = Advance(BaseIndex, Len(args.points))
  /\ pc' = "w_point_data"
  /\ UNCHANGED <<op, err, handle, args, wrote, readLocals>>

\* The dtype recorded for a point tag: the data's own for a flat array, a
\* k-tuple of it for an n-x-k array.
TagDtype(value) ==
  IF Len(value.shape) = 1 THEN [base |-> "int", tuple |-> 0]
  ELSE [base |-> "int", tuple |-> value.shape[2]]

\* tstt/tags, then the point tags with their entries in the global tags.
WritePointData ==
  /\ op = "write" /\ pc = "w_point_data"
  /\ file' =
       IF args.point_data.none
       THEN [file EXCEPT !.paths = @ \cup {"tstt/tags"}]
       ELSE [file EXCEPT
              !.paths = @ \cup {"tstt/tags", "tstt/nodes/tags"},
              !.node_tags = [key \in DOMAIN args.point_data.items |->
                               args.point_data.items[key].data],
              !.tstt_tags = [key \in DOMAIN args.point_data.items |->
                               [type |-> TagDtype(args.point_data.items[key]),
                                class |-> 2]]]
  /\ pc' = "w_elements"
  /\ UNCHANGED <<op, err, handle, args, wrote, global_id, readLocals>>

\* The elements group, the elemtypes enumeration and the history record.
WriteElemHeader ==
  /\ op = "write" /\ pc = "w_elements"
  /\ file' = [file EXCEPT
       !.paths = @ \cup {"tstt/elements", "tstt/elemtypes", "tstt/history"}]
  /\ pc' = "w_block"
  /\ UNCHANGED <<op, err, handle, args, wrote, global_id, readLocals>>

\* this_type = h5m_type[cells.shape[1]] raises KeyError for a width that is
\* not a key of the table; the exception leaves write.
WriteUnsupportedWidth ==
  /\ op = "write" /\ pc = "w_block"
  /\ args.cells.width \notin DOMAIN h5m_type
  /\ pc' = "raised"
  /\ err' = "KeyError"
  /\ wrote' = "failed"
  /\ UNCHANGED <<file, op, handle, args, global_id, readLocals>>

\* The element block: element_type, connectivity = cells + 1, start_id;
\* global_id += M
WriteElemBlock ==
  /\ op = "write" /\ pc = "w_block"
  /\ args.cells.width \in DOMAIN h5m_type
  /\ LET this_type == h5m_type[args.cells.width]
     IN file' = [file EXCEPT
          !.elems = [n \in {this_type.name} |->
                       Block(this_type.type, ShiftUp(args.cells), global_id,
                             FALSE, EmptyFn)]]
  /\ global_id' = Advance(global_id, Len(args.cells.rows))
  /\ pc' = "w_cell_data"
  /\ UNCHANGED <<op, err, handle, args, wrote, readLocals>>

\* if cell_data: the block's tags group with one dataset per entry.
WriteCellData ==
  /\ op = "write" /\ pc = "w_cell_data"
  /\ LET name == h5m_type[args.cells.width].name
         truthy == ~args.cell_data.none /\ DOMAIN args.cell_data.items # {}
     IN file' =
          IF truthy
          THEN [file EXCEPT !.elems[name].has_tags = TRUE,
                            !.elems[name].tags = args.cell_data.items]
          ELSE file
  /\ pc' = "w_sets"
  /\ UNCHANGED <<op, err, handle, args, wrote, global_id, readLocals>>

\* Locals go out of scope at the end of a call that returns; nothing in
\* the code closes the handle, so whether it is released by then is up to
\* the runtime's finalisation of the dropped File object.
HandleAfterReturn == {"open", "closed"}

\* The empty sets group with its tags subgroup, max_id, return.
WriteSetsAndMaxId ==
  /\ op = "write" /\ pc = "w_sets"
  /\ file' = [file EXCEPT
       !.paths = @ \cup {"tstt/sets", "tstt/sets/tags"},
       !.attrs = [a \in {"max_id"} |-> global_id]]
  /\ \E h \in HandleAfterReturn : handle' = [handle EXCEPT !.write = h]
  /\ pc' = "returned"
  /\ wrote' = "ok"
  /\ UNCHANGED <<op, err, args, global_id, readLocals>>

\* ----------------------------------------------------------------- read
\* f = h5py.File(filename, 'r'); dset = f['tstt']
ReadOpen ==
  /\ <<op, pc>> \in {<<"read", "idle">>, <<"write", "returned">>}
  /\ op' = "read"
  /\ handle' = [handle EXCEPT !.read = "open"]
  /\ pc' = "r_points"
  /\ UNCHANGED <<file, err, args, wrote, global_id, readLocals>>

\* points and point_data, both verbatim.
ReadPoints ==
  /\ op = "read" /\ pc = "r_points"
  /\ points' = file.coords
  /\ point_data' = IF "tstt/nodes/tags" \in file.paths
                   THEN file.node_tags ELSE EmptyFn
  /\ pc' = "r_select"
  /\ UNCHANGED <<file, op, err, handle, args, wrote, global_id, elems, cells,
                 cell_data, cell_start_gid, cell_end_gid, tag_i, k, end>>

\* raise RuntimeError('Need Tri3s or Tet4s.')
ReadUnsupportedMesh ==
  /\ op = "read" /\ pc = "r_select"
  /\ SelectBlock(DOMAIN file.elems) = "none"
  /\ pc' = "raised"
  /\ err' = "RuntimeError"
  /\ UNCHANGED <<file, op, handle, args, wrote, global_id, readLocals>>

\* elems = dset['elements']['Tri3'] or ['Tet4']
ReadSelectBlock ==
  /\ op = "read" /\ pc = "r_select"
  /\ SelectBlock(DOMAIN file.elems) # "none"
  /\ elems' = SelectBlock(DOMAIN file.elems)
  /\ pc' = "r_cells"
  /\ UNCHANGED <<file, op, err, handle, args, wrote, global_id, points,
                 point_data, cells, cell_data, cell_start_gid, cell_end_gid,
                 tag_i, k, end>>

\* cells = conn[()] - 1 and the block's tags as cell_data.
ReadCells ==
  /\ op = "read" /\ pc = "r_cells"
  /\ cells' = ShiftDown(file.elems[elems].connectivity)
  /\ cell_data' = IF file.elems[elems].has_tags
                  THEN file.elems[elems].tags ELSE EmptyFn
  /\ pc' = "r_sets"
  /\ UNCHANGED <<file, op, err, handle, args, wrote, global_id, points,
                 point_data, elems, cell_start_gid, cell_end_gid, tag_i, k,
                 end>>

\* 'sets' in dset and 'contents' in dset['sets']
HasSetsContents(f) ==
  "tstt/sets" \in f.paths /\ "tstt/sets/contents" \in f.paths

\* No sets to decode: return.
ReadNoSets ==
  /\ op = "read" /\ pc = "r_sets"
  /\ ~HasSetsContents(file)
  /\ \E h \in HandleAfterReturn : handle' = [handle EXCEPT !.read = h]
  /\ pc' = "returned"
  /\ UNCHANGED <<file, op, err, args, wrote, global_id, readLocals>>

\* cell_gids = cell_start_gid + elems['tags']['GLOBAL_ID'][()]
CellGids(start, gid_tag) == [i \in 1..Len(gid_tag) |-> start + gid_tag[i]]

\* all(cell_gids == range(cell_start_gid, cell_end_gid + 1))
Contiguous(cell_gids, start, stop) ==
  \A i \in 1..Len(cell_gids) : cell_gids[i] = PyRange(start, stop)[i]

\* The start of set decoding: the block's GLOBAL_ID tag is looked up
\* (KeyError when the block has no tags group or no such tag) and the
\* contiguity of the cell global IDs is asserted.
ReadSetsCheck ==
  /\ op = "read" /\ pc = "r_sets"
  /\ HasSetsContents(file)
  /\ LET blk == file.elems[elems]
         has_gid == blk.has_tags /\ "GLOBAL_ID" \in DOMAIN blk.tags
         start == blk.start_id
         gids == IF has_gid THEN CellGids(start, blk.tags["GLOBAL_ID"])
                 ELSE <<>>
         stop == start + Len(gids) - 1
     IN IF ~has_gid
        THEN /\ pc' = "raised" /\ err' = "KeyError"
             /\ UNCHANGED <<cell_start_gid, cell_end_gid, tag_i>>
        ELSE IF ~Contiguous(gids, start, stop + 1)
        THEN /\ pc' = "raised" /\ err' = "AssertionError"
             /\ cell_start_gid' = start /\ cell_end_gid' = stop
             /\ UNCHANGED tag_i
        ELSE /\ pc' = "r_tag" /\ UNCHANGED err
             /\ cell_start_gid' = start /\ cell_end_gid' = stop
             /\ tag_i' = 1
  /\ UNCHANGED <<file, op, handle, args, wrote, global_id, points, point_data,
                 elems, cells, cell_data, k, end>>

\* 'set::' + key
ModKey(key) ==
  CASE key = "MATERIAL_SET" -> "set::MATERIAL_SET"
    [] key = "PARALLEL_PARTITION" -> "set::PARALLEL_PARTITION"
    [] OTHER -> "set::"

\* What the slots of an array from numpy.empty may hold.
GarbageVals == {0, 99}

\* numpy.empty(n, dtype=int): n uninitialised slots.
NumpyEmpty(n) == [1..n -> GarbageVals]

Put(d, key, value) ==
  [x \in DOMAIN d \cup {key} |-> IF x = key THEN value ELSE d[x]]

\* Next set tag: allocate its dense array, reset the cursor.
ReadTagBegin ==
  /\ op = "read" /\ pc = "r_tag"
  /\ tag_i <= Len(file.sets_tags)
  /\ \E arr \in NumpyEmpty(Len(cells.rows)) :
       cell_data' = Put(cell_data, ModKey(file.sets_tags[tag_i].key), arr)
  /\ end' = 0
  /\ k' = 1
  /\ pc' = "r_row"
  /\ UNCHANGED <<file, op, err, handle, args, wrote, global_id, points,
                 point_data, elems, cells, cell_start_gid, cell_end_gid,
                 tag_i>>

\* a[i0:i1] = v
SliceAssign(a, i0, i1, v) ==
  [i \in 1..Len(a) |->
     IF PyBound(i0, Len(a)) <= i - 1 /\ i - 1 < PyBound(i1, Len(a))
     THEN v ELSE a[i]]

\* The loop over the (start_gid, length) pairs of a range-compressed row,
\* from pair i on: the array after it, or the failure that ends it.
RECURSIVE FillRanges(_, _, _, _, _, _)
FillRanges(a, pairs, i, start, stop, v) ==
  IF i > Len(pairs) THEN [ok |-> TRUE, arr |-> a]
  ELSE LET start_gid == pairs[i][1]
           end_gid == start_gid + pairs[i][2] - 1
       IN IF start_gid >= start /\ end_gid <= stop
          THEN FillRanges(SliceAssign(a, start_gid - start,
                                      end_gid - start + 1, v),
                          pairs, i + 1, start, stop, v)
          ELSE [ok |-> FALSE, arr |-> a]

\* A 0-based numpy index into an array of length n, negative ones counting
\* from the end.
IndexOk(i, n) == -n <= i /\ i < n

IndexPos(i, n) == IF i < 0 THEN i + n + 1 ELSE i + 1

FancyAssignOffByOne(a, idx, v) ==
  [i \in 1..Len(a) |->
     IF \E j \in 1..Len(idx) : IndexPos(idx[j], Len(a)) = i - 1
     THEN v ELSE a[i]]

\* a[idx] = v for an index array idx, all of whose entries are valid.
FancyAssign(a, idx, v) ==
  [i \in 1..Len(a) |->
     IF \E j \in 1..Len(idx) : IndexPos(idx[j], Len(a)) = i
     THEN v ELSE a[i]]

NextEndStuck(row) == row[1]

\* end = row[0] + 1
NextEnd(row) == row[1] + 1

\* Is the row range-compressed: bit 3 of its flag word.
IsRangeCompressed(row) == IntToBoolList(row[4])[4]

\* One row of sets_list decoded into arr for the row's tag value v: the
\* array after it, or the exception the row raises.
DecodeRow(arr, row, cursor, contents, start, stop, v) ==
  IF IsRangeCompressed(row)
  THEN LET start_gids == PySlice(contents, cursor, row[1] + 1, 2)
           lengths == PySlice(contents, cursor + 1, row[1] + 1, 2)
           r == FillRanges(arr, Zip(start_gids, lengths), 1, start, stop, v)
       IN [err |-> IF r.ok THEN "" ELSE "RuntimeError", arr |-> r.arr]
  ELSE LET gids == PySlice(contents, cursor, row[1] + 1, 1)
           idx == [j \in 1..Len(gids) |-> gids[j] - start]
       IN IF \A j \in 1..Len(idx) : IndexOk(idx[j], Len(arr))
          THEN [err |-> "", arr |-> FancyAssign(arr, idx, v)]
          ELSE [err |-> "IndexError", arr |-> arr]

\* The body of the loop over sets_list for row k, cursor advance included.
ReadRow ==
  /\ op = "read" /\ pc = "r_row"
  /\ k <= Len(file.sets_list)
  /\ LET tag == file.sets_tags[tag_i]
         mod_key == ModKey(tag.key)
         row == file.sets_list[k]
         r == DecodeRow(cell_data[mod_key], row, end, file.sets_contents,
                        cell_start_gid, cell_end_gid, tag.value[k])
     IN IF r.err # ""
        THEN /\ pc' = "raised" /\ err' = r.err
             /\ cell_data' = [cell_data EXCEPT ![mod_key] = r.arr]
             /\ UNCHANGED <<k, end>>
        ELSE /\ cell_data' = [cell_data EXCEPT ![mod_key] = r.arr]
             /\ end' = NextEnd(row)
             /\ k' = k + 1
             /\ UNCHANGED <<pc, err>>
  /\ UNCHANGED <<file, op, handle, args, wrote, global_id, points, point_data,
                 elems, cells, cell_start_gid, cell_end_gid, tag_i>>

\* The rows are exhausted: on to the next set tag.
ReadTagEnd ==
  /\ op = "read" /\ pc = "r_row"
  /\ k > Len(file.sets_list)
  /\ tag_i' = tag_i + 1
  /\ pc' = "r_tag"
  /\ UNCHANGED <<file, op, err, handle, args, wrote, global_id, points,
                 point_data, elems, cells, cell_data, cell_start_gid,
                 cell_end_gid, k, end>>

\* The set tags are exhausted: return.
ReadReturn ==
  /\ op = "read" /\ pc = "r_tag"
  /\ tag_i > Len(file.sets_tags)
  /\ \E h \in HandleAfterReturn : handle' = [handle EXCEPT !.read = h]
  /\ pc' = "returned"
  /\ UNCHANGED <<file, op, err, args, wrote, global_id, readLocals>>

\* ------------------------------------------------- containers to read
\* Containers produced elsewhere: SynthNodes nodes (global IDs from 1),
\* then the element blocks in the order Tri3, Tet4, Edge2, and possibly a
\* sets group.
SynthNodes == MaxPoints

BlockNames == {"Edge2", "Tri3", "Tet4"}

BlockWidth(name) ==
  CASE name = "Edge2" -> 2 [] name = "Tri3" -> 3 [] name = "Tet4" -> 4

BlockCode(name) ==
  CASE name = "Edge2" -> 1 [] name = "Tri3" -> 2 [] name = "Tet4" -> 5

\* The blocks that precede `name` in the global-ID space.
BlocksBefore(name, names) ==
  CASE name = "Tri3" -> {}
    [] name = "Tet4" -> names \cap {"Tri3"}
    [] name = "Edge2" -> names \cap {"Tri3", "Tet4"}

SynthConn(name, m) ==
  [width |-> BlockWidth(name),
   rows |-> [j \in 1..m |->
               [c \in 1..BlockWidth(name) |-> 1 + ((j + c) % SynthNodes)]]]

\* GLOBAL_ID tags of a block of m cells: the run 0..m-1, one entry short,
\* one entry long, shifted by one, and reversed.
GidTagChoices(m) ==
  {PyRange(0, m), PyRange(0, m - 1), PyRange(0, m + 1), PyRange(1, m + 1),
   Reverse(PyRange(0, m))}

\* gid_tag = <<-1>> stands for a block without a tags group.
NoTags == <<-1>>

SynthBlock(name, names, m, gid_tag) ==
  Block(BlockCode(name), SynthConn(name, m),
        SynthNodes + 1 + m * Cardinality(BlocksBefore(name, names)),
        gid_tag # NoTags,
        IF gid_tag = NoTags THEN EmptyFn
        ELSE [key \in {"GLOBAL_ID"} |-> gid_tag])

NoSets == [paths |-> {}, contents |-> <<>>, list |-> <<>>, tags |-> <<>>]

EmptySets ==
  [paths |-> {"tstt/sets", "tstt/sets/tags"}, contents |-> <<>>,
   list |-> <<>>, tags |-> <<>>]

\* The flag words of the rows: unique and ordered (6), range-compressed (8).
FlagVals == {6, 8}

\* The values held by the contents dataset, global IDs and run lengths:
\* the last node's ID and the IDs of the first cells.
ContentVals == SynthNodes..(SynthNodes + 3)

\* Lists of at most MaxRows rows over a contents dataset of n entries: the
\* rows' end indices do not decrease and the last row ends the dataset.
RowsOver(n) ==
  {<<e, 0, 0, f>> : e \in -1..(n - 1), f \in FlagVals}

ListChoices(n) ==
  {l \in SeqsUpTo(RowsOver(n), MaxRows) :
     /\ \A j \in 1..(Len(l) - 1) : l[j][1] <= l[j + 1][1]
     /\ Len(l) > 0 => l[Len(l)][1] = n - 1
     /\ Len(l) = 0 => n = 0}

\* The value of tag number t on row j.
SetTag(key, t, rows) == [key |-> key, value |-> [j \in 1..rows |-> 10 * t + j]]

\* The sets' tags group: none, one or two tags.
TagChoices(rows) ==
  {<<>>,
   <<SetTag("PARALLEL_PARTITION", 1, rows)>>,
   <<SetTag("MATERIAL_SET", 1, rows), SetTag("PARALLEL_PARTITION", 2, rows)>>}

OneTag(rows) == <<SetTag("PARALLEL_PARTITION", 1, rows)>>

SetsWith(contents, list, tags) ==
  [paths |-> {"tstt/sets", "tstt/sets/tags", "tstt/sets/contents",
              "tstt/sets/list"},
   contents |-> contents, list |-> list, tags |-> tags]

\* One range-compressed row holding the single run (first cell, 1).
SimpleSets(tags) == SetsWith(<<SynthNodes + 1, 1>>, <<<<1, 0, 0, 8>>>>, tags)

\* One explicit row listing the first two cells.
ExplicitSets(tags) ==
  SetsWith(<<SynthNodes + 1, SynthNodes + 2>>, <<<<1, 0, 0, 6>>>>, tags)

SynthFile(names, m, gid_tag, sets) ==
  [paths |-> {"tstt", "tstt/nodes", "tstt/nodes/coordinates", "tstt/tags",
              "tstt/elements", "tstt/elemtypes", "tstt/history"}
             \cup sets.paths,
   coords |-> PointsOf(SynthNodes),
   coords_start_id |-> 1,
   node_tags |-> EmptyFn,
   tstt_tags |-> EmptyFn,
   elems |-> [name \in names |-> SynthBlock(name, names, m, gid_tag)],
   sets_contents |-> sets.contents,
   sets_list |-> sets.list,
   sets_tags |-> sets.tags,
   attrs |-> [a \in {"max_id"} |->
                SynthNodes + 1 + m * Cardinality(names)]]

InitCommon ==
  /\ pc = "idle" /\ err = ""
  /\ handle = [write |-> "none", read |-> "none"]
  /\ wrote = "no"
  /\ global_id = 0
  /\ points = <<>> /\ point_data = EmptyFn /\ elems = "none"
  /\ cells = NoCells /\ cell_data = EmptyFn
  /\ cell_start_gid = 0 /\ cell_end_gid = 0
  /\ tag_i = 0 /\ k = 0 /\ end = 0

\* A write into a fresh container, to be followed by a read of it.
InitWrite ==
  /\ file = EmptyFile
  /\ op = "write"
  /\ args \in WriteArgs
  /\ InitCommon

\* A read of a container produced elsewhere: any choice of blocks, with or
\* without a sets group.
InitSelect ==
  /\ \E names \in SUBSET BlockNames, m \in 0..MaxCells :
       \E g \in {PyRange(0, m), NoTags},
          s \in {NoSets, EmptySets} \cup {SimpleSets(t) : t \in TagChoices(1)} :
         file = SynthFile(names, m, g, s)
  /\ op = "read"
  /\ args = NoArgs
  /\ InitCommon

\* A read of a container with sets to decode and any GLOBAL_ID tag on the
\* one block.
InitGid ==
  /\ \E n \in {"Tri3", "Tet4"}, m \in 0..MaxCells :
       \E g \in GidTagChoices(m),
          s \in {SimpleSets(OneTag(1)), ExplicitSets(OneTag(1))} :
         file = SynthFile({n}, m, g, s)
  /\ op = "read"
  /\ args = NoArgs
  /\ InitCommon

\* A read of a container with any sets group over a Tri3 block of MaxCells
\* cells with contiguous global IDs.
InitDecode ==
  /\ \E c \in SeqsUpTo(ContentVals, MaxContents) :
       \E l \in ListChoices(Len(c)) :
         file = SynthFile({"Tri3"}, MaxCells, PyRange(0, MaxCells),
                          SetsWith(c, l, OneTag(Len(l))))
  /\ op = "read"
  /\ args = NoArgs
  /\ InitCommon

Init == InitWrite \/ InitSelect \/ InitGid \/ InitDecode

Next ==
  \/ WriteOpen \/ WriteNodes \/ WritePointData \/ WriteElemHeader
  \/ WriteUnsupportedWidth \/ WriteElemBlock \/ WriteCellData
  \/ WriteSetsAndMaxId
  \/ ReadOpen \/ ReadPoints \/ ReadUnsupportedMesh \/ ReadSelectBlock
  \/ ReadCells \/ ReadNoSets \/ ReadSetsCheck \/ ReadTagBegin \/ ReadRow
  \/ ReadTagEnd \/ ReadReturn

Spec == Init /\ [][Next]_vars

\* ---------------------------------------------------------------- claims
\* Helpers of the claims below, stated over the container alone.
ReadEnded == op = "read" /\ pc \in {"returned", "raised"}

\* The position in contents at which row j's slice starts.
PrevEnd(j) == IF j = 1 THEN 0 ELSE file.sets_list[j - 1][1] + 1

\* Bit 3 of the row's flag word.
RowIsRange(row) == (row[4] \div 8) % 2 = 1

\* 0-based positions of contents that make up row j's slice.
RowPositions(j) ==
  {q \in PrevEnd(j)..file.sets_list[j][1] : q < Len(file.sets_contents)}

\* The global IDs row j's membership refers to.
RowMembers(j) ==
  IF RowIsRange(file.sets_list[j])
  THEN UNION {file.sets_contents[q + 1]..
                (file.sets_contents[q + 1] + file.sets_contents[q + 2] - 1) :
                q \in {x \in RowPositions(j) :
                         (x - PrevEnd(j)) % 2 = 0 /\ x + 1 \in RowPositions(j)}}
  ELSE {file.sets_contents[q + 1] : q \in RowPositions(j)}

NumCells == Len(cells.rows)

\* C1 as stated: after a write that succeeded (row width 2, 3 or 4), the
\* read of the container returns, and returns the cells that were written.
RoundTripAllWidths ==
  (wrote = "ok" /\ ReadEnded) => (pc = "returned" /\ cells = args.cells)

\* C1 as amended: after a write of cells of row width 3 or 4, the read of
\* the container returns, and returns the cells that were written.
RoundTripTriTet ==
  (wrote = "ok" /\ ReadEnded /\ args.cells.width \in {3, 4})
    => (pc = "returned" /\ cells = args.cells)

RoundTripWitness ==
  /\ wrote = "ok" /\ op = "read" /\ pc = "returned"
  /\ args.cells.width = 4 /\ Len(args.cells.rows) = 2
  /\ cells = args.cells

\* C2: after a write of N points and M cells that succeeded, the
\* coordinates' start_id is 1, the one element block's start_id is N + 1 and
\* max_id is N + M + 1.
IdLayout ==
  wrote = "ok" =>
    LET N == Len(args.points)
        M == Len(args.cells.rows)
    IN /\ file.coords_start_id = 1
       /\ Len(file.coords) = N
       /\ Cardinality(DOMAIN file.elems) = 1
       /\ \A b \in DOMAIN file.elems :
            /\ file.elems[b].start_id = N + 1
            /\ Len(file.elems[b].connectivity.rows) = M
       /\ "max_id" \in DOMAIN file.attrs
       /\ file.attrs["max_id"] = N + M + 1

IdLayoutWitness ==
  /\ wrote = "ok" /\ op = "write"
  /\ Len(args.points) = 2 /\ Len(args.cells.rows) = 3
  /\ file.attrs["max_id"] = 6

\* C3: a write of cells whose row width is not 2, 3 or 4 never gets past
\* the choice of the element type; it ends with KeyError, the container
\* holding the coordinates and point tags but no element block, no sets
\* group and no max_id.
UnsupportedWidthAborts ==
  (op = "write" /\ args.cells.width \notin {2, 3, 4}) =>
    /\ pc \notin {"w_cell_data", "w_sets", "returned"}
    /\ wrote # "ok"
    /\ pc = "raised" =>
         /\ err = "KeyError"
         /\ DOMAIN file.elems = {}
         /\ file.paths \cap {"tstt/sets", "tstt/sets/tags"} = {}
         /\ "max_id" \notin DOMAIN file.attrs
         /\ "tstt/nodes/coordinates" \in file.paths
         /\ file.coords = args.points
         /\ file.coords_start_id = 1
         /\ ~args.point_data.none =>
              /\ "tstt/nodes/tags" \in file.paths
              /\ DOMAIN file.node_tags = DOMAIN args.point_data.items
              /\ \A key \in DOMAIN file.node_tags :
                   file.node_tags[key] = args.point_data.items[key].data

UnsupportedWidthWitness ==
  /\ op = "write" /\ pc = "raised" /\ args.cells.width = 5
  /\ Len(args.cells.rows) > 0
  /\ ~args.point_data.none
  /\ Len(file.coords) = 2 /\ DOMAIN file.node_tags = {"T", "V"}

\* C4 as stated, for a block whose GLOBAL_ID tag has one entry per cell: a
\* read that decoded the sets for at least one tag and returned met no row
\* whose membership refers to a global ID outside
\* [cell_start_gid, cell_end_gid].
PointTargetedRowFails ==
  (op = "read" /\ pc = "returned" /\ HasSetsContents(file)
     /\ Len(file.sets_tags) > 0
     /\ cell_end_gid = cell_start_gid + NumCells - 1)
    => \A j \in 1..Len(file.sets_list) :
         RowMembers(j) \subseteq cell_start_gid..cell_end_gid

\* C5 as stated: after decoding one range-compressed row holding one
\* (start_gid, length) pair inside the cells' global IDs, each set:: array
\* has one slot per cell, the row's value on the run and zero elsewhere.
RangeRowZeroElsewhere ==
  (/\ op = "read" /\ pc = "returned" /\ HasSetsContents(file)
   /\ Len(file.sets_list) = 1 /\ RowIsRange(file.sets_list[1])
   /\ Len(file.sets_contents) = 2 /\ file.sets_list[1][1] = 1
   /\ file.sets_contents[1] >= cell_start_gid
   /\ file.sets_contents[1] + file.sets_contents[2] - 1
        <= cell_start_gid + NumCells - 1)
    => \A t \in 1..Len(file.sets_tags) :
         LET arr == cell_data[ModKey(file.sets_tags[t].key)]
             i0 == file.sets_contents[1] - cell_start_gid
             i1 == i0 + file.sets_contents[2] - 1
         IN /\ Len(arr) = NumCells
            /\ \A i \in 1..NumCells :
                 arr[i] = IF i0 <= i - 1 /\ i - 1 <= i1
                          THEN file.sets_tags[t].value[1] ELSE 0

\* C6: decoding an explicit row whose global IDs all lie in the cells'
\* range gives the row's value to exactly the slots gi - cell_start_gid of
\* the tag's array and leaves every other slot as it was.
ExplicitRowAssigns ==
  [][(/\ op = "read" /\ pc = "r_row" /\ k <= Len(file.sets_list)
      /\ ~RowIsRange(file.sets_list[k])
      /\ RowMembers(k) \subseteq
           cell_start_gid..(cell_start_gid + NumCells - 1))
     => LET mk == ModKey(file.sets_tags[tag_i].key)
            v == file.sets_tags[tag_i].value[k]
        IN /\ pc' = "r_row" /\ k' = k + 1
           /\ DOMAIN cell_data' = DOMAIN cell_data
           /\ Len(cell_data'[mk]) = NumCells
           /\ \A i \in 1..NumCells :
                cell_data'[mk][i] =
                  IF (cell_start_gid + i - 1) \in RowMembers(k)
                  THEN v ELSE cell_data[mk][i]]_vars

\* An explicit first row listing three global IDs of cells has been
\* decoded: its value sits on the listed cells, and a cell that is not
\* listed still holds what the array was allocated with.
ExplicitRowWitness ==
  /\ op = "read" /\ pc = "r_row" /\ k = 2
  /\ ~RowIsRange(file.sets_list[1])
  /\ file.sets_list[1][1] = 2
  /\ RowMembers(1) \subseteq cell_start_gid..(cell_start_gid + NumCells - 1)
  /\ Cardinality(RowMembers(1)) = 2
  /\ LET arr == cell_data[ModKey(file.sets_tags[tag_i].key)]
     IN \A i \in 1..NumCells :
          arr[i] = IF (cell_start_gid + i - 1) \in RowMembers(1)
                   THEN file.sets_tags[tag_i].value[1] ELSE 99

\* C7 as stated: a call that has ended, by return or by exception, has
\* released its container handle.
HandleReleased ==
  pc \in {"returned", "raised"} => handle[op] = "closed"

\* C8: the read takes its cells from Tri3 when the container has one, else
\* from Tet4, and with neither it ends in RuntimeError with no cells read.
BlockPriority ==
  op = "read" =>
    LET names == DOMAIN file.elems
    IN /\ pc \in {"r_cells", "r_sets", "r_tag", "r_row", "returned"} =>
            \/ "Tri3" \in names /\ elems = "Tri3"
            \/ "Tri3" \notin names /\ "Tet4" \in names /\ elems = "Tet4"
       /\ pc \in {"r_sets", "r_tag", "r_row", "returned"} =>
            LET conn == file.elems[elems].connectivity
            IN /\ cells.width = conn.width
               /\ Len(cells.rows) = Len(conn.rows)
               /\ \A j \in 1..Len(conn.rows) : \A c \in 1..conn.width :
                    cells.rows[j][c] = conn.rows[j][c] - 1
       /\ names \cap {"Tri3", "Tet4"} = {} =>
            /\ pc \in {"idle", "r_points", "r_select", "raised"}
            /\ pc = "raised" =>
                 err = "RuntimeError" /\ elems = "none" /\ cells = NoCells

BlockPriorityWitness ==
  /\ op = "read" /\ pc = "returned"
  /\ DOMAIN file.elems = {"Edge2", "Tri3", "Tet4"}
  /\ elems = "Tri3" /\ cells.width = 3 /\ Len(cells.rows) = 2

\* C9 as stated: a read that is decoding sets has checked that the
\* selected block's GLOBAL_ID values plus start_id are the run start_id,
\* ..., start_id + M - 1, M the number of cells.
GidRunOfAllCells ==
  (op = "read" /\ pc \in {"r_tag", "r_row"}) =>
    LET blk == file.elems[elems]
    IN /\ Len(blk.tags["GLOBAL_ID"]) = Len(blk.connectivity.rows)
       /\ \A i \in 1..Len(blk.tags["GLOBAL_ID"]) :
            blk.start_id + blk.tags["GLOBAL_ID"][i] = blk.start_id + i - 1

\* C10: whenever the loop over sets_list is about to take row k, the
\* cursor is 0 for the first row and the previous row's first field + 1
\* otherwise, so that the slice it takes is contents[that .. row k's first
\* field].
CursorFollowsRows ==
  (op = "read" /\ pc = "r_row") =>
    /\ end = (IF k = 1 THEN 0 ELSE file.sets_list[k - 1][1] + 1)
    /\ k <= Len(file.sets_list) =>
         PySlice(file.sets_contents, end, file.sets_list[k][1] + 1, 1)
           = SubSeq(file.sets_contents, PrevEnd(k) + 1,
                    file.sets_list[k][1] + 1)

\* Two rows with increasing end fields, the first range-compressed and the
\* second explicit, have been decoded.
CursorWitness ==
  /\ op = "read" /\ pc = "r_row" /\ k = 3
  /\ RowIsRange(file.sets_list[1]) /\ ~RowIsRange(file.sets_list[2])
  /\ file.sets_list[1][1] = 1 /\ file.sets_list[2][1] = 2
  /\ end = 3

====
